---------------------------- MODULE Spec2Model ----------------------------
(***************************************************************************)
(* Model of earthquakes.py (posix build, os.name = 'posix'): the poll loop *)
(* of main(), check_earthquakes(), play_alarm()/stop_alarm(), the keyboard *)
(* listener thread, the signal handler (which CPython runs on the main     *)
(* thread, between two of its steps) and the threading.Timer threads that  *)
(* play_alarm() starts.  The module has no lock: every read and write of a *)
(* global is a step of its own, and threads interleave between steps.      *)
(*                                                                         *)
(* Magnitudes are in tenths (45 is 4.5).  An event record carries the      *)
(* distance calculate_distance() gives for its coordinates, in km.         *)
(* Time is abstracted: a timer that is armed may fire at any later moment, *)
(* and the poll loop may find CHECK_INTERVAL elapsed at any wake.  Only    *)
(* SpecClock runs the loop against the clock time.time() reads.            *)
(*                                                                         *)
(* Statements that touch only data of the thread that runs them (the feed, *)
(* last_earthquake_id and the two files belong to the main thread alone)   *)
(* are grouped into one step; every read and every write of is_alarm_active*)
(* and alarm_process in stop_alarm is a step of its own.                   *)
(***************************************************************************)
EXTENDS Integers, Sequences, FiniteSets, TLC

(* ------------------------------ bounds --------------------------------- *)
MaxIds == 2
MaxFeedLen == 2
MaxCycles == 3
MaxAlarms == 2
MaxSignals == 1
MaxRuns == 2
MaxSurveyIds == 3
MaxSurveyLen == 3
MaxStopCycles == 2
MaxClock == 24
MaxOversleep == 1

(* --------------------------- configuration ----------------------------- *)
MAX_DISTANCE == 300
EVACUATION_MAGNITUDE == 45
CHECK_INTERVAL == 10

None == 0
Corrupt == -1

Ids == 1..MaxIds
Mags == {EVACUATION_MAGNITUDE - 1, EVACUATION_MAGNITUDE, EVACUATION_MAGNITUDE + 6}
Dists == {MAX_DISTANCE, MAX_DISTANCE + 1}
Events == [id : Ids, mag : Mags, dist : Dists]
Keys == {"a", "q", "x"}

RECURSIVE SeqsUpTo(_)
SeqsUpTo(n) ==
    IF n = 0 THEN {<<>>}
    ELSE LET S == SeqsUpTo(n - 1)
         IN  S \cup {Append(s, e) : s \in {x \in S : Len(x) = n - 1}, e \in Events}

DistinctIds(f) == \A i, j \in 1..Len(f) : i # j => f[i].id # f[j].id

Feeds == {f \in SeqsUpTo(MaxFeedLen) : DistinctIds(f)}

\* Longer feeds with more events, for the selection of the strongest event.
SurveyEvents == [id : 1..MaxSurveyIds, mag : Mags, dist : Dists]

SurveySeqs(n) == UNION {[1..k -> SurveyEvents] : k \in 0..n}

SurveyFeeds == {f \in SurveySeqs(MaxSurveyLen) : DistinctIds(f)}

(* ------------------------------ threads -------------------------------- *)
Main == <<"main", 0>>
Kbd == <<"kbd", 0>>
Sigs == {<<"sig", i>> : i \in 1..MaxSignals}
Timers == {<<"tmr", i>> : i \in 1..MaxAlarms}
Threads == {Main, Kbd} \cup Sigs \cup Timers
Sinks == 1..MaxAlarms

VARIABLES
    is_alarm_active,      \* global, line 47
    alarm_process,        \* global, line 48: None or the Popen handle (a sink id)
    last_earthquake_id,   \* global, line 49
    shutdown_requested,   \* global, line 50
    pc,                   \* each thread's position
    last_quake_file,      \* LAST_QUAKE_FILE: None (absent), Corrupt, or the stored id
    earthquake_log,       \* LOG_FILE: the number of entries appended
    sink,                 \* each sink process: "unborn", "live" or "terminated"
    terminate_calls,      \* terminate() calls made on each sink process
    cycles,               \* check_earthquakes calls made so far
    run,                  \* the number of the current process run
    startup,              \* main: the evaluation under way is the one of line 362
    path,                 \* history: the way the current check_earthquakes call took
    call,                 \* history: what the current play_alarm call started from
    last_saved,           \* history: the id of the last record save_last_quake wrote
    strongest,            \* history: the strongest nearby event (line 242) the last step of
                          \* main evaluated, or NoQuake
    io,                   \* history: how the writes of lines 269 and 270 ended in that step
    features,             \* observed: the features (line 208) that step evaluated
    status,               \* observed: the HTTP status of the last response evaluated
    key,                  \* observed: the character the last read(1) consumed
    forwarded,            \* observed: the play_alarm calls made for each event id
    now,                  \* the clock time.time() reads, in seconds
    last_check,           \* main: the local of lines 365 and 372
    current_time,         \* main: the local of line 367
    phase,                \* main: where it is in lines 365-375 while pc[Main] = "loop"
    ended,                \* history: the clock when the last evaluation returned
    began                 \* history: the clock when the last evaluation was called

globals == <<is_alarm_active, alarm_process, last_earthquake_id, shutdown_requested>>
files == <<last_quake_file, earthquake_log>>
sinks == <<sink, terminate_calls>>
hist == <<path, call, last_saved, strongest, io, features>>
obs == <<status, key, forwarded>>
clock == <<now, last_check, current_time, phase, ended, began>>
vars == <<globals, pc, files, sinks, cycles, run, startup, hist, obs, clock>>

NoCall == [idle |-> FALSE, sinks0 |-> 0, timers0 |-> 0]
NoQuake == [id |-> None, mag |-> 0, dist |-> 0]
NoIo == [save |-> "none", log |-> "none"]
NoStatus == 0
NoKey == ""

(* ------------------------------ helpers -------------------------------- *)
SinksStarted == Cardinality({p \in Sinks : sink[p] # "unborn"})
LiveSinks == {p \in Sinks : sink[p] = "live"}
TimersArmed == Cardinality({t \in Timers : pc[t] # "unborn"})
PendingTimers == {t \in Timers : pc[t] = "armed"}
RunningTimers == {t \in Timers : pc[t] \notin {"unborn", "armed", "done"}}
SignalsSent == Cardinality({s \in Sigs : pc[s] # "unborn"})
ActiveFrames == {s \in Sigs : pc[s] \notin {"unborn", "done"}}

\* The process is alive until main() has returned and every (non-daemon)
\* timer thread has finished.
ProcessAlive == pc[Main] # "done" \/ PendingTimers # {} \/ RunningTimers # {}

\* A signal handler runs on the main thread: the main thread's own code
\* runs only when no handler frame is open, and of the open frames only
\* the innermost (the latest) runs.
MainRuns == pc[Main] # "done" /\ ActiveFrames = {}
FrameRuns(s) == s \in ActiveFrames /\ \A o \in ActiveFrames : o[2] <= s[2]

\* The keyboard thread is a daemon: it runs as long as the process does.
KbdRuns == ProcessAlive /\ pc[Kbd] \notin {"unborn", "k_done"}

\* Thread t, a caller of stop_alarm, may take its next step.
Runs(t) ==
    IF t = Kbd THEN KbdRuns
    ELSE IF t \in Sigs THEN FrameRuns(t)
    ELSE t \in Timers

\* Where stop_alarm() returns to, per caller.
Ret(t) == IF t = Kbd THEN "k_loop" ELSE "done"

Goto(t, l) == pc' = [pc EXCEPT ![t] = l]

(* ------------------- check_earthquakes: pure parts --------------------- *)
\* A range test that leaves out the events at MAX_DISTANCE itself.
StrictlyWithin(e) == e.dist < MAX_DISTANCE

\* Lines 215-232: the events within MAX_DISTANCE, in feed order.
WithinRange(e) == e.dist <= MAX_DISTANCE
Nearby(f) == SelectSeq(f, WithinRange)

\* An insertion that puts an event before the events of equal magnitude.
RECURSIVE InsertBeforeEqual(_, _)
InsertBeforeEqual(e, s) ==
    IF s = <<>> THEN <<e>>
    ELSE IF Head(s).mag > e.mag THEN <<Head(s)>> \o InsertBeforeEqual(e, Tail(s))
    ELSE <<e>> \o s

\* Line 239: list.sort(key = mag, reverse = True).  Python's sort is stable,
\* also with reverse: events of equal magnitude keep their feed order.
RECURSIVE InsertDesc(_, _)
InsertDesc(e, s) ==
    IF s = <<>> THEN <<e>>
    ELSE IF Head(s).mag >= e.mag THEN <<Head(s)>> \o InsertDesc(e, Tail(s))
    ELSE <<e>> \o s

RECURSIVE SortDesc(_)
SortDesc(s) ==
    IF s = <<>> THEN <<>>
    ELSE InsertDesc(s[Len(s)], SortDesc(SubSeq(s, 1, Len(s) - 1)))

\* Lines 242-244: nearby_quakes[0] after the sort.
Strongest(f) == Head(SortDesc(Nearby(f)))

\* Line 247.
\* A comparison that never finds the stored id: every event counts as new.
NeverDuplicate(quake_id, last_id) == FALSE

IsDuplicate(quake_id, last_id) == quake_id = last_id

\* A threshold test that no magnitude passes.
NoEvacuation(magnitude) == FALSE

\* A threshold test that leaves out the threshold itself.
AboveEvacuation(magnitude) == magnitude > EVACUATION_MAGNITUDE

\* Line 281.
RequiresEvacuation(magnitude) == magnitude >= EVACUATION_MAGNITUDE

\* Lines 180-186, the file after save_last_quake: the record is written, or
\* the write raises and the error is only logged: open() failed (the file
\* is as it was) or the write failed after open(..., "w") had truncated the
\* file (what is left does not parse).
SaveOutcomes == {"saved", "open_failed", "write_failed"}
Saved(file, quake_id, outcome) ==
    CASE outcome = "saved" -> quake_id
      [] outcome = "open_failed" -> file
      [] outcome = "write_failed" -> Corrupt

\* Lines 166-178, the log after log_earthquake: the entry is appended, or
\* the write raises and the error is only logged.
LogOutcomes == {"logged", "log_failed"}
Logged(log, outcome) ==
    IF outcome = "logged" THEN log + 1 ELSE log

\* A start that does not read the file.
NotLoaded(file, current) == current

\* Lines 188-198, last_earthquake_id after load_last_quake: an absent file
\* leaves it as it is; an unreadable one raises inside the try and leaves
\* it as it is as well.
LoadedId(file, current) == IF file \in {None, Corrupt} THEN current ELSE file

(* ------------------------------- Init ---------------------------------- *)
Init ==
    /\ is_alarm_active = FALSE
    /\ alarm_process = None
    /\ last_earthquake_id = None
    /\ shutdown_requested = FALSE
    /\ pc = [t \in Threads |-> IF t = Main THEN "load" ELSE "unborn"]
    /\ last_quake_file = None
    /\ earthquake_log = 0
    /\ sink = [p \in Sinks |-> "unborn"]
    /\ terminate_calls = [p \in Sinks |-> 0]
    /\ cycles = 0
    /\ run = 1
    /\ startup = TRUE
    /\ path = "none"
    /\ call = NoCall
    /\ last_saved = None
    /\ strongest = NoQuake
    /\ io = NoIo
    /\ features = <<>>
    /\ status = NoStatus
    /\ key = NoKey
    /\ forwarded = [i \in Ids |-> 0]
    /\ now = 0
    /\ last_check = 0
    /\ current_time = 0
    /\ phase = "startup"
    /\ ended = 0
    /\ began = 0

(* --------------------------------- main -------------------------------- *)
\* Lines 347-362: load the stored id, start the keyboard thread, go to the
\* first evaluation.
load_last_quake ==
    /\ MainRuns /\ pc[Main] = "load"
    /\ last_earthquake_id' = LoadedId(last_quake_file, last_earthquake_id)
    /\ pc' = [pc EXCEPT ![Main] = "ce_fetch", ![Kbd] = "k_loop"]
    /\ cycles' = cycles + 1
    /\ UNCHANGED <<is_alarm_active, alarm_process, shutdown_requested, files, sinks,
                   run, startup, hist, obs, clock>>

(* --------------------------- check_earthquakes ------------------------- *)
\* Lines 206-208 and 286-291: the request fails or the body does not parse.
ce_fetch_error ==
    /\ MainRuns /\ pc[Main] = "ce_fetch"
    /\ path' = "error"
    /\ status' = NoStatus
    /\ Goto(Main, "ce_ret")
    /\ UNCHANGED <<globals, files, sinks, cycles, run, startup, call, last_saved, strongest, io,
                   features, key, forwarded, clock>>

\* Lines 206-284 for a response with features f, up to the call of
\* play_alarm: no features (210), no nearby event (234), the strongest
\* nearby event is the stored one (247), or it is new: it is stored (268),
\* saved (269), logged (270), and play_alarm is called for it or not (281).
ce_evaluate(f, save, log) ==
    /\ MainRuns /\ pc[Main] = "ce_fetch"
    /\ cycles > MaxCycles => f = <<>>
    /\ IF f = <<>>
       THEN /\ path' = "empty"
            /\ Goto(Main, "ce_ret")
            /\ UNCHANGED <<last_earthquake_id, files, last_saved, strongest, io>>
       ELSE IF Nearby(f) = <<>>
       THEN /\ path' = "far"
            /\ Goto(Main, "ce_ret")
            /\ UNCHANGED <<last_earthquake_id, files, last_saved, strongest, io>>
       ELSE /\ strongest' = Strongest(f)
            /\ IF IsDuplicate(strongest'.id, last_earthquake_id)
               THEN /\ path' = "dup"
                    /\ Goto(Main, "ce_ret")
                    /\ UNCHANGED <<last_earthquake_id, files, last_saved, io>>
               ELSE /\ last_earthquake_id' = strongest'.id
                    /\ last_quake_file' = Saved(last_quake_file, strongest'.id, save)
                    /\ last_saved' = IF save = "saved" THEN strongest'.id ELSE last_saved
                    /\ earthquake_log' = Logged(earthquake_log, log)
                    /\ io' = [save |-> save, log |-> log]
                    /\ IF RequiresEvacuation(strongest'.mag)
                       THEN path' = "alarm" /\ Goto(Main, "pa_check")
                       ELSE path' = "report" /\ Goto(Main, "ce_ret")
    /\ UNCHANGED <<is_alarm_active, alarm_process, shutdown_requested, sinks, cycles, run,
                   startup, call, clock>>

\* Lines 206-208 return a response; nothing is observed of it but the
\* features.
ce_fetch ==
    \E f \in Feeds, save \in SaveOutcomes, log \in LogOutcomes :
        ce_evaluate(f, save, log) /\ UNCHANGED <<features, obs, clock>>

\* check_earthquakes returns to main (lines 362 and 371-372).
ce_ret ==
    /\ MainRuns /\ pc[Main] = "ce_ret"
    /\ path' = "none"
    /\ call' = NoCall
    /\ strongest' = NoQuake
    /\ io' = NoIo
    /\ features' = <<>>
    /\ startup' = FALSE
    /\ Goto(Main, "loop")
    /\ UNCHANGED <<globals, files, sinks, cycles, run, last_saved, obs, clock>>

(* ------------------------------ play_alarm ----------------------------- *)
\* play_alarm without the check of lines 94-95: a call made while Active
\* goes on like one made while Idle.
pa_check_absent ==
    /\ MainRuns /\ pc[Main] = "pa_check"
    /\ path' = path /\ Goto(Main, "pa_set")
    /\ call' = [idle |-> ~is_alarm_active, sinks0 |-> SinksStarted, timers0 |-> TimersArmed]
    /\ strongest' = NoQuake /\ io' = NoIo /\ features' = <<>>
    /\ UNCHANGED <<globals, files, sinks, cycles, run, startup, last_saved, obs, clock>>

\* Lines 94-95.
pa_check ==
    /\ MainRuns /\ pc[Main] = "pa_check"
    /\ IF is_alarm_active
       THEN path' = "noop" /\ Goto(Main, "ce_ret")
       ELSE path' = path /\ Goto(Main, "pa_set")
    /\ call' = [idle |-> ~is_alarm_active, sinks0 |-> SinksStarted, timers0 |-> TimersArmed]
    /\ strongest' = NoQuake /\ io' = NoIo /\ features' = <<>>
    /\ UNCHANGED <<globals, files, sinks, cycles, run, startup, last_saved, obs, clock>>

\* Line 101.
pa_set ==
    /\ MainRuns /\ pc[Main] = "pa_set"
    /\ is_alarm_active' = TRUE
    /\ Goto(Main, "pa_start")
    /\ UNCHANGED <<alarm_process, last_earthquake_id, shutdown_requested, files, sinks,
                   cycles, run, startup, hist, obs, clock>>

\* Lines 103-136, by what the platform does:
\*   "nofile"    the sound file is absent: logged, return (105-107);
\*   "started"   a player starts (126-131) and the timer is armed (136);
\*   "noplayer"  every player raises FileNotFoundError (132-133): no
\*               process, alarm_process as it was, and the timer is armed;
\*   "oserror"   Popen raises another exception: line 138 catches it.
StartOutcomes == {"nofile", "started", "noplayer", "oserror"}
NewSink == SinksStarted + 1
NewTimer == <<"tmr", TimersArmed + 1>>

pa_start(outcome) ==
    /\ MainRuns /\ pc[Main] = "pa_start"
    /\ path' = outcome
    /\ CASE outcome = "nofile" ->
              /\ Goto(Main, "ce_ret")
              /\ UNCHANGED <<alarm_process, sinks>>
         [] outcome = "started" ->
              /\ sink' = [sink EXCEPT ![NewSink] = "live"]
              /\ alarm_process' = NewSink
              /\ pc' = [pc EXCEPT ![Main] = "ce_ret", ![NewTimer] = "armed"]
              /\ UNCHANGED terminate_calls
         [] outcome = "noplayer" ->
              /\ pc' = [pc EXCEPT ![Main] = "ce_ret", ![NewTimer] = "armed"]
              /\ UNCHANGED <<alarm_process, sinks>>
         [] outcome = "oserror" ->
              /\ Goto(Main, "pa_except")
              /\ UNCHANGED <<alarm_process, sinks>>
    /\ UNCHANGED <<is_alarm_active, last_earthquake_id, shutdown_requested, files, cycles,
                   run, startup, call, last_saved, strongest, io, features, obs, clock>>

\* Lines 138-140.
pa_except ==
    /\ MainRuns /\ pc[Main] = "pa_except"
    /\ is_alarm_active' = FALSE
    /\ Goto(Main, "ce_ret")
    /\ UNCHANGED <<alarm_process, last_earthquake_id, shutdown_requested, files, sinks,
                   cycles, run, startup, hist, obs, clock>>

play_alarm == pa_check \/ pa_set \/ (\E o \in StartOutcomes : pa_start(o)) \/ pa_except

(* ------------------------------ stop_alarm ----------------------------- *)
\* Lines 146-147.
sa_check(t) ==
    /\ Runs(t) /\ pc[t] = "sa_check"
    /\ IF is_alarm_active THEN Goto(t, "sa_clear") ELSE Goto(t, Ret(t))
    /\ UNCHANGED <<globals, files, sinks, cycles, run, startup, hist, obs, clock>>

\* Line 149.
sa_clear(t) ==
    /\ Runs(t) /\ pc[t] = "sa_clear"
    /\ is_alarm_active' = FALSE
    /\ Goto(t, "sa_test")
    /\ UNCHANGED <<alarm_process, last_earthquake_id, shutdown_requested, files, sinks,
                   cycles, run, startup, hist, obs, clock>>

\* Line 151.
sa_test(t) ==
    /\ Runs(t) /\ pc[t] = "sa_test"
    /\ IF alarm_process # None THEN Goto(t, "sa_term") ELSE Goto(t, Ret(t))
    /\ UNCHANGED <<globals, files, sinks, cycles, run, startup, hist, obs, clock>>

\* Line 158: alarm_process is read again; when another stop_alarm has set it
\* to None in between, None.terminate() raises AttributeError, which line
\* 163 catches.
sa_terminate(t) ==
    /\ Runs(t) /\ pc[t] = "sa_term"
    /\ IF alarm_process # None
       THEN /\ sink' = [sink EXCEPT ![alarm_process] = "terminated"]
            /\ terminate_calls' = [terminate_calls EXCEPT ![alarm_process] = @ + 1]
            /\ Goto(t, "sa_none")
       ELSE /\ Goto(t, Ret(t))
            /\ UNCHANGED sinks
    /\ UNCHANGED <<globals, files, cycles, run, startup, hist, obs, clock>>

\* Line 160.
sa_none(t) ==
    /\ Runs(t) /\ pc[t] = "sa_none"
    /\ alarm_process' = None
    /\ Goto(t, Ret(t))
    /\ UNCHANGED <<is_alarm_active, last_earthquake_id, shutdown_requested, files, sinks,
                   cycles, run, startup, hist, obs, clock>>

stop_alarm(t) == sa_check(t) \/ sa_clear(t) \/ sa_test(t) \/ sa_terminate(t) \/ sa_none(t)

(* ------------------------- handle_keyboard_input ----------------------- *)
\* Line 299.
k_loop ==
    /\ KbdRuns /\ pc[Kbd] = "k_loop"
    /\ IF shutdown_requested THEN Goto(Kbd, "k_done") ELSE Goto(Kbd, "k_read1")
    /\ UNCHANGED <<globals, files, sinks, cycles, run, startup, hist, obs, clock>>

\* Lines 317-318: the first read(1).
k_read1(c) ==
    /\ KbdRuns /\ pc[Kbd] = "k_read1"
    /\ IF c = "a" /\ is_alarm_active
       THEN Goto(Kbd, "sa_check")
       ELSE Goto(Kbd, "k_read2")
    /\ UNCHANGED <<globals, files, sinks, cycles, run, startup, hist, clock>>

\* Lines 319-321: the elif reads a second character.
k_read2(c) ==
    /\ KbdRuns /\ pc[Kbd] = "k_read2"
    /\ IF c = "q"
       THEN /\ shutdown_requested' = TRUE
            /\ Goto(Kbd, "sa_check")
       ELSE /\ Goto(Kbd, "k_loop")
            /\ UNCHANGED shutdown_requested
    /\ UNCHANGED <<is_alarm_active, alarm_process, last_earthquake_id, files, sinks,
                   cycles, run, startup, hist, clock>>

\* The listener; which characters it consumed is not observed.
handle_keyboard_input ==
    \/ k_loop
    \/ \E c \in Keys : k_read1(c) /\ UNCHANGED obs
    \/ \E c \in Keys : k_read2(c) /\ UNCHANGED obs
    \/ stop_alarm(Kbd)

(* ----------------------------- signal_handler -------------------------- *)
\* Lines 331-336: SIGINT or SIGTERM arrives while main() runs; the handler
\* sets the flag and calls stop_alarm on the main thread.
NewFrame == <<"sig", SignalsSent + 1>>

signal_handler ==
    /\ pc[Main] # "done"
    /\ SignalsSent < MaxSignals
    /\ shutdown_requested' = TRUE
    /\ Goto(NewFrame, "sa_check")
    /\ UNCHANGED <<is_alarm_active, alarm_process, last_earthquake_id, files, sinks,
                   cycles, run, startup, hist, obs, clock>>

signal_frame == \E s \in Sigs : stop_alarm(s)

(* ------------------------------ Timer thread --------------------------- *)
\* The timer armed at line 136 expires and its thread calls stop_alarm.
timer_fire(t) ==
    /\ pc[t] = "armed"
    /\ Goto(t, "sa_check")
    /\ UNCHANGED <<globals, files, sinks, cycles, run, startup, hist, obs, clock>>

timer_thread == \E t \in Timers : timer_fire(t) \/ stop_alarm(t)

(* ------------------------------ the poll loop -------------------------- *)
\* A loop whose condition never ends it.
main_exit_absent == FALSE

\* Line 366: the loop ends once the flag is set.
main_exit ==
    /\ MainRuns /\ pc[Main] = "loop"
    /\ shutdown_requested
    /\ Goto(Main, "done")
    /\ UNCHANGED <<globals, files, sinks, cycles, run, startup, hist, obs, clock>>

\* Lines 367-372: a wake that finds CHECK_INTERVAL elapsed.
main_check ==
    /\ MainRuns /\ pc[Main] = "loop"
    /\ ~shutdown_requested
    /\ cycles < MaxCycles
    /\ TimersArmed < MaxAlarms
    /\ cycles' = cycles + 1
    /\ Goto(Main, "ce_fetch")
    /\ UNCHANGED <<globals, files, sinks, run, startup, hist, obs, clock>>

\* Lines 367-372 once the bounds are used up: the loop goes on waking, and
\* from then on the feed has no event (see ce_evaluate).
main_check_quiet ==
    /\ MainRuns /\ pc[Main] = "loop"
    /\ ~shutdown_requested
    /\ cycles >= MaxCycles \/ TimersArmed >= MaxAlarms
    /\ cycles' = MaxCycles + 1
    /\ Goto(Main, "ce_fetch")
    /\ UNCHANGED <<globals, files, sinks, run, startup, hist, obs, clock>>

\* The process has ended and is started again: the globals are those of
\* lines 47-50, the files and the sink processes are what the last run left.
restart ==
    /\ ~ProcessAlive
    /\ run < MaxRuns
    /\ cycles < MaxCycles
    /\ TimersArmed < MaxAlarms
    /\ run' = run + 1
    /\ is_alarm_active' = FALSE
    /\ alarm_process' = None
    /\ last_earthquake_id' = None
    /\ shutdown_requested' = FALSE
    /\ pc' = [pc EXCEPT ![Main] = "load", ![Kbd] = "unborn"]
    /\ startup' = TRUE
    /\ UNCHANGED <<files, sinks, cycles, hist, obs, clock>>

check_earthquakes == ce_fetch_error \/ ce_fetch \/ play_alarm \/ ce_ret

main == load_last_quake \/ check_earthquakes \/ main_check \/ main_exit

\* The whole program: the poll loop, the keyboard thread, signals, the timer
\* threads, and the process ending and starting again.
Next ==
    \/ main
    \/ handle_keyboard_input
    \/ signal_handler
    \/ signal_frame
    \/ timer_thread
    \/ restart

Spec == Init /\ [][Next]_vars

\* The program in an environment where nothing fails (the feed answers,
\* both files can be written, the sound file exists and a player starts),
\* within one process run: the alarm and every thread that stops it.
ce_fetch_ok ==
    \E f \in Feeds : ce_evaluate(f, "saved", "logged") /\ UNCHANGED <<features, obs, clock>>

play_alarm_ok == pa_check \/ pa_set \/ pa_start("started")

main_ok == load_last_quake \/ ce_fetch_ok \/ play_alarm_ok \/ ce_ret \/ main_check \/ main_exit

NextAlarm ==
    \/ main_ok
    \/ handle_keyboard_input
    \/ signal_handler
    \/ signal_frame
    \/ timer_thread

SpecAlarm == Init /\ [][NextAlarm]_vars

\* The program with no key pressed: the poll loop with every outcome of the
\* feed, of the two files and of the sink start, a termination signal, the
\* timer threads, and the process ending and starting again.
NextFaults ==
    \/ main
    \/ signal_handler
    \/ signal_frame
    \/ timer_thread
    \/ restart

SpecFaults == Init /\ [][NextFaults]_vars

\* The program with no key pressed and no signal sent, the feed answering
\* and the files writable, with every outcome of the sink start, the poll
\* loop going on for ever.  Every thread of the process is scheduled again
\* and again, and a timer that is armed expires: weak fairness of the main
\* thread's and of the timer threads' steps.
main_auto ==
    load_last_quake \/ ce_fetch_ok \/ play_alarm \/ ce_ret \/ main_check \/ main_check_quiet

NextAuto ==
    \/ main_auto
    \/ timer_thread

SpecAuto == Init /\ [][NextAuto]_vars /\ WF_vars(main_auto) /\ WF_vars(timer_thread)

\* The poll loop alone with its timers, the files writable, and a feed that
\* answers with any HTTP status.  Lines 206-207: requests.get returns the
\* response whatever its status (raise_for_status() is not called), and
\* response.json() parses the body of a 503 like that of a 200.
Statuses == {200, 503}
IsSuccess(st) == st \in 200..299

ce_respond(st, f) ==
    /\ ce_evaluate(f, "saved", "logged")
    /\ status' = st
    /\ forwarded' = IF pc'[Main] = "pa_check"
                    THEN [forwarded EXCEPT ![strongest'.id] = @ + 1]
                    ELSE forwarded
    /\ UNCHANGED <<features, key>>

ce_fetch_any == \E st \in Statuses, f \in Feeds : ce_respond(st, f)

main_cycle ==
    load_last_quake \/ ce_fetch_error \/ ce_fetch_any \/ play_alarm_ok \/ ce_ret \/ main_check

NextCycle ==
    \/ main_cycle
    \/ timer_thread

SpecCycle == Init /\ [][NextCycle]_vars

\* The poll loop, its timers and the keyboard listener, with the characters
\* the listener consumes observed; nothing fails and no signal is sent.
k_consume1 == \E c \in Keys : k_read1(c) /\ key' = c /\ UNCHANGED <<status, forwarded>>
k_consume2 == \E c \in Keys : k_read2(c) /\ key' = c /\ UNCHANGED <<status, forwarded>>

NextKeys ==
    \/ main_ok
    \/ k_loop
    \/ k_consume1
    \/ k_consume2
    \/ stop_alarm(Kbd)
    \/ timer_thread

SpecKeys == Init /\ [][NextKeys]_vars

\* The evaluation at startup (line 362) with its timer, nothing failing,
\* for feeds of up to MaxSurveyLen events, the features observed.
ce_survey ==
    \E f \in SurveyFeeds :
        ce_evaluate(f, "saved", "logged") /\ features' = f /\ UNCHANGED obs

main_survey == load_last_quake \/ ce_survey \/ play_alarm_ok \/ ce_ret

NextSurvey ==
    \/ main_survey
    \/ timer_thread

SpecSurvey == Init /\ [][NextSurvey]_vars

\* The program within one process run of up to MaxStopCycles evaluations,
\* nothing failing but the fetch, with the main thread scheduled again and
\* again: weak fairness of the steps of main() and of the signal handler,
\* which runs on the main thread.
main_stop == (main_ok \/ ce_fetch_error) /\ cycles' <= MaxStopCycles

NextStop ==
    \/ main_stop
    \/ handle_keyboard_input
    \/ signal_handler
    \/ signal_frame
    \/ timer_thread

SpecStop == Init /\ [][NextStop]_vars /\ WF_vars(main_stop) /\ WF_vars(signal_frame)

\* The poll loop alone against the clock, nothing failing and no timer
\* thread scheduled: lines 362-375 with the values time.time() returns.  The clock advances while an evaluation waits
\* for the feed (line 206) and while the loop sleeps (line 375).
tick ==
    /\ MainRuns /\ pc[Main] = "ce_fetch"
    /\ now < MaxClock
    /\ now' = now + 1
    /\ UNCHANGED <<globals, pc, files, sinks, cycles, run, startup, hist, obs,
                   last_check, current_time, phase, ended, began>>

\* Line 365 after the evaluation of line 362, line 372 after one of line 371.
main_last_check ==
    /\ MainRuns /\ pc[Main] = "loop"
    /\ phase \in {"startup", "periodic"}
    /\ last_check' = IF phase = "startup" THEN now ELSE current_time
    /\ phase' = IF phase = "startup" THEN "wake" ELSE "sleep"
    /\ ended' = now
    /\ UNCHANGED <<globals, pc, files, sinks, cycles, run, startup, hist, obs,
                   now, current_time, began>>

\* Line 370: the test of the elapsed time.
DueAtOnce(elapsed) == TRUE
Due(elapsed) == elapsed >= CHECK_INTERVAL

\* Lines 366-371: the loop condition, the clock is read, and the evaluation
\* is called when it is due.
main_wake ==
    /\ MainRuns /\ pc[Main] = "loop"
    /\ phase = "wake"
    /\ ~shutdown_requested
    /\ current_time' = now
    /\ LET elapsed == current_time' - last_check IN
       IF Due(elapsed)
       THEN /\ cycles < MaxCycles
            /\ TimersArmed < MaxAlarms
            /\ cycles' = cycles + 1
            /\ Goto(Main, "ce_fetch")
            /\ phase' = "periodic"
            /\ began' = now
       ELSE /\ phase' = "sleep"
            /\ UNCHANGED <<pc, cycles, began>>
    /\ UNCHANGED <<globals, files, sinks, run, startup, hist, obs, now, last_check, ended>>

\* Line 375: time.sleep(1) returns after one second or later.
main_sleep ==
    /\ MainRuns /\ pc[Main] = "loop"
    /\ phase = "sleep"
    /\ \E d \in 1..(1 + MaxOversleep) : now + d <= MaxClock /\ now' = now + d
    /\ phase' = "wake"
    /\ UNCHANGED <<globals, pc, files, sinks, cycles, run, startup, hist, obs,
                   last_check, current_time, ended, began>>

main_clock ==
    \/ load_last_quake
    \/ ce_fetch_ok
    \/ play_alarm_ok
    \/ ce_ret
    \/ main_last_check
    \/ main_wake
    \/ main_sleep

NextClock ==
    \/ main_clock
    \/ tick

SpecClock == Init /\ [][NextClock]_vars

TypeOK ==
    /\ is_alarm_active \in BOOLEAN
    /\ shutdown_requested \in BOOLEAN
    /\ alarm_process \in {None} \cup Sinks
    /\ last_earthquake_id \in {None} \cup 1..MaxSurveyIds
    /\ last_quake_file \in {None, Corrupt} \cup 1..MaxSurveyIds
    /\ cycles \in 0..(MaxCycles + 1)
    /\ run \in 1..MaxRuns
    /\ now \in 0..MaxClock
    /\ phase \in {"startup", "periodic", "wake", "sleep"}
    /\ \A i \in Ids : forwarded[i] \in 0..MaxCycles

(* ------------------------------- claims -------------------------------- *)
\* A play_alarm or stop_alarm call is in progress in some thread.
InPlayAlarm == pc[Main] \in {"pa_check", "pa_set", "pa_start", "pa_except"}
InStopAlarm(t) == pc[t] \in {"sa_check", "sa_clear", "sa_test", "sa_term", "sa_none"}
Quiescent == ~InPlayAlarm /\ \A t \in Threads : ~InStopAlarm(t)

\* C1: in every reachable state at most one sink process that was started
\* and not yet terminated exists.
C1_AtMostOneLiveSink == Cardinality(LiveSinks) <= 1

\* C2: terminate() is executed at most once on each sink process, however
\* the stop_alarm calls of the keyboard thread, the signal handler and the
\* timer threads interleave.
C2_TerminateOnce == \A p \in Sinks : terminate_calls[p] <= 1

\* C3: when play_alarm, called while Idle, returns without having started a
\* sink (no sound file, or no player), is_alarm_active is false.
C3_FailedStartStaysIdle ==
    (pc[Main] = "ce_ret" /\ path \in {"nofile", "noplayer"}) => ~is_alarm_active

\* C4: with no acknowledge, no quit command and no signal, an alert that
\* became Active eventually returns to Idle.
C4_ActiveLeadsToIdle == is_alarm_active ~> ~is_alarm_active

\* C5, as claimed: when play_alarm returns from a call made while Idle, the
\* call has started exactly one sink and armed exactly one timer; a call
\* made while Active has started no sink and armed no timer.
C5_Claim ==
    (pc[Main] = "ce_ret" /\ path \in StartOutcomes \cup {"noop"}) =>
        IF call.idle
        THEN SinksStarted = call.sinks0 + 1 /\ TimersArmed = call.timers0 + 1
        ELSE SinksStarted = call.sinks0 /\ TimersArmed = call.timers0

\* What a play_alarm call has done when it returns: it returned at once
\* exactly if it was made while Active; it started one sink if a player
\* started and none otherwise; it armed one timer if a player started or no
\* player was found, and none otherwise.
C5_CallEffect ==
    (pc[Main] = "ce_ret" /\ path \in StartOutcomes \cup {"noop"}) =>
        /\ (path = "noop") <=> ~call.idle
        /\ SinksStarted = call.sinks0 + (IF path = "started" THEN 1 ELSE 0)
        /\ TimersArmed = call.timers0 + (IF path \in {"started", "noplayer"} THEN 1 ELSE 0)
        /\ path = "started" => sink[SinksStarted] # "unborn"

\* C5, amended: a call made while Idle sets is_alarm_active; when it
\* returns it has started exactly one sink and armed exactly one timer if a
\* player started, no sink and one timer if no player was found, and
\* neither if the sound file is absent or Popen raised; a call made while
\* Active returns at once, having started no sink, armed no timer and left
\* every armed timer as it was.
C5_Trigger ==
    /\ []C5_CallEffect
    /\ [][(pc[Main] = "pa_check" /\ pc'[Main] # "pa_check") =>
              IF is_alarm_active
              THEN pc'[Main] = "ce_ret" /\ UNCHANGED <<globals, sinks>>
                   /\ \A t \in Timers : pc'[t] = pc[t]
              ELSE pc'[Main] = "pa_set"]_vars
    /\ [][(pc[Main] = "pa_set" /\ pc'[Main] # "pa_set") => is_alarm_active']_vars

C5_Witness ==
    /\ pc[Main] = "ce_ret" /\ path = "started" /\ call.idle
    /\ is_alarm_active /\ LiveSinks = {alarm_process} /\ PendingTimers # {}

\* C6: in every quiescent state, Idle implies that no auto-stop timer is
\* pending.
C6_IdleNoPendingTimer == (Quiescent /\ ~is_alarm_active) => PendingTimers = {}

\* C7: when the poll loop has exited, the alert state is Idle and no sink
\* process is live.
C7_ExitIdle == pc[Main] = "done" => (~is_alarm_active /\ LiveSinks = {})

\* The evaluation step of a poll cycle, and the first one of a process that
\* was started again.
Evaluates == pc[Main] = "ce_fetch" /\ pc'[Main] # "ce_fetch"
Restarted == run > 1 /\ startup

\* C8: a poll cycle whose strongest nearby event has the stored identifier
\* calls no play_alarm, writes neither file and leaves last_earthquake_id
\* and the alert state as they were.
C8_DuplicateIsIgnored ==
    [][(Evaluates /\ strongest' # NoQuake /\ strongest'.id = last_earthquake_id)
            => /\ pc'[Main] = "ce_ret"
               /\ UNCHANGED <<globals, files, sinks>>
               /\ \A t \in Timers : pc'[t] = pc[t]]_vars

C8_Witness ==
    /\ pc[Main] = "ce_ret" /\ path = "dup"
    /\ last_earthquake_id \in Ids /\ last_quake_file = last_earthquake_id

\* C9, as claimed: a poll cycle whose strongest nearby event has another
\* identifier than the stored one leaves that identifier in memory and in
\* the file and one more entry in the log, and calls play_alarm exactly if
\* the magnitude reaches the threshold.
C9_Claim ==
    [][(Evaluates /\ strongest' # NoQuake /\ strongest'.id # last_earthquake_id)
            => /\ last_earthquake_id' = strongest'.id
               /\ last_quake_file' = strongest'.id
               /\ earthquake_log' = earthquake_log + 1
               /\ (pc'[Main] = "pa_check") <=> (strongest'.mag >= EVACUATION_MAGNITUDE)]_vars

\* C9, amended: such a cycle leaves the identifier in memory; in the file
\* if the record could be written, and otherwise the file as it was (open
\* failed) or without a readable record (the write failed); one more entry
\* in the log if the entry could be written and the log as it was
\* otherwise; it calls play_alarm exactly if the magnitude reaches the
\* threshold, and otherwise returns.
C9_NewEvent ==
    [][(Evaluates /\ strongest' # NoQuake /\ strongest'.id # last_earthquake_id)
            => /\ last_earthquake_id' = strongest'.id
               /\ io'.save = "saved" => last_quake_file' = strongest'.id
               /\ io'.save = "open_failed" => last_quake_file' = last_quake_file
               /\ io'.save = "write_failed" => last_quake_file' \notin Ids
               /\ io'.save \in SaveOutcomes /\ io'.log \in LogOutcomes
               /\ earthquake_log' = earthquake_log + (IF io'.log = "logged" THEN 1 ELSE 0)
               /\ (pc'[Main] = "pa_check") <=> (strongest'.mag >= EVACUATION_MAGNITUDE)
               /\ (pc'[Main] = "ce_ret") <=> (strongest'.mag < EVACUATION_MAGNITUDE)]_vars

C9_Witness ==
    /\ pc[Main] = "ce_ret" /\ path = "report"
    /\ strongest.id = last_earthquake_id /\ last_quake_file # last_earthquake_id
    /\ io = [save |-> "open_failed", log |-> "logged"] /\ earthquake_log > 0

\* C10, as claimed: after a restart the identifier in memory is that of the
\* last record that was saved successfully.
C10_Claim ==
    (Restarted /\ pc[Main] = "ce_fetch") => last_earthquake_id = last_saved

\* C10, amended: after a restart the identifier in memory is that of the
\* last record that was saved successfully, unless a later save failed
\* after truncating the file, and then it is empty; a first poll cycle
\* whose strongest nearby event is the one loaded calls no play_alarm and
\* writes neither file.
C10_Restart ==
    /\ [](Restarted /\ pc[Main] = "ce_fetch" =>
             last_earthquake_id = IF last_quake_file = Corrupt THEN None ELSE last_saved)
    /\ [][(/\ Restarted /\ Evaluates /\ last_quake_file # Corrupt
            /\ strongest' # NoQuake /\ strongest'.id = last_saved)
                 => /\ pc'[Main] = "ce_ret"
                    /\ UNCHANGED <<last_earthquake_id, files>>]_vars

C10_Witness ==
    /\ Restarted /\ pc[Main] = "ce_ret" /\ path = "dup"
    /\ last_saved \in Ids /\ last_earthquake_id = last_saved

\* The step in which a fetch ends as a fetch error: requests.get or
\* response.json() raised, or the response is not a 2xx one.
FetchError == Evaluates /\ (path' = "error" \/ (status' # NoStatus /\ ~IsSuccess(status')))

\* C11: a poll cycle whose fetch is a fetch error returns without another
\* fetch and changes none of last_earthquake_id, the two files and the
\* alert state, and the poll loop then goes on.
C11_FetchErrorIsSkipped ==
    /\ [][FetchError =>
              /\ pc'[Main] = "ce_ret"
              /\ UNCHANGED <<globals, files, sinks>>
              /\ \A t \in Timers : pc'[t] = pc[t]]_vars
    /\ [][(pc[Main] = "ce_ret" /\ pc'[Main] # "ce_ret") => pc'[Main] = "loop"]_vars

\* C12: when the write of the record or of the log entry fails in a cycle
\* that evaluates a new event of magnitude >= the threshold, the cycle
\* still stores the identifier and calls play_alarm, from the same alert
\* state as without the failure.
C12_PersistenceFaultIsSwallowed ==
    [][(/\ Evaluates /\ strongest' # NoQuake
        /\ strongest'.id # last_earthquake_id
        /\ strongest'.mag >= EVACUATION_MAGNITUDE
        /\ (io'.save # "saved" \/ io'.log # "logged"))
       => /\ pc'[Main] = "pa_check"
          /\ last_earthquake_id' = strongest'.id
          /\ UNCHANGED <<is_alarm_active, alarm_process, shutdown_requested, sinks>>
          /\ \A t \in Timers : pc'[t] = pc[t]]_vars

C12_Witness ==
    /\ pc[Main] = "ce_ret" /\ path = "started" /\ call.idle /\ is_alarm_active
    /\ last_earthquake_id \in Ids /\ last_quake_file = Corrupt /\ earthquake_log = 0

\* The step in which the listener consumes a character (lines 317, 319).
Consumes == pc[Kbd] \in {"k_read1", "k_read2"} /\ pc'[Kbd] # pc[Kbd]

\* C13: every consumed 'q' sets the shutdown flag and calls stop_alarm, and
\* every 'a' consumed while the alert is Active calls stop_alarm.
C13_KeysAreDispatched ==
    [][Consumes =>
          /\ key' = "q" => (shutdown_requested' /\ pc'[Kbd] = "sa_check")
          /\ (key' = "a" /\ is_alarm_active) => pc'[Kbd] = "sa_check"]_vars

\* The features of an evaluated response, reordered by permutation p.
Reordered(p) == [i \in 1..Len(features) |-> features[p[i]]]

\* C14: the event selected as strongest is a nearby event of the feed whose
\* magnitude is the maximum over the nearby events, the first such event
\* in feed order; an event is selected whenever one is nearby; and every
\* permutation of the feed gives the same selected magnitude.
C14_StrongestIsFirstMaximum ==
    /\ (\E i \in 1..Len(features) : features[i].dist <= MAX_DISTANCE) => strongest # NoQuake
    /\ (features # <<>> /\ strongest # NoQuake) =>
          /\ \E i \in 1..Len(features) :
                /\ features[i] = strongest
                /\ features[i].dist <= MAX_DISTANCE
                /\ \A j \in 1..Len(features) :
                      features[j].dist <= MAX_DISTANCE =>
                          /\ features[j].mag <= strongest.mag
                          /\ features[j].mag = strongest.mag => i <= j
          /\ \A p \in Permutations(1..Len(features)) :
                Strongest(Reordered(p)).mag = strongest.mag

C14_Witness ==
    /\ Len(features) >= 3 /\ strongest = features[2]
    /\ features[1].dist > MAX_DISTANCE /\ features[1].mag > strongest.mag
    /\ features[3].dist <= MAX_DISTANCE /\ features[3].mag = strongest.mag

\* C15: an evaluation that stores an identifier, writes a file or calls
\* play_alarm does so for an event of the feed at a distance <= MAX_DISTANCE;
\* an event at exactly MAX_DISTANCE is retained; an evaluation of a feed
\* whose events all lie beyond MAX_DISTANCE calls no play_alarm and changes
\* neither the stored identifier nor the files.
C15_OnlyNearbyEvents ==
    [][Evaluates =>
          /\ (\/ last_earthquake_id' # last_earthquake_id
              \/ last_quake_file' # last_quake_file
              \/ earthquake_log' # earthquake_log
              \/ pc'[Main] = "pa_check")
             => \E i \in 1..Len(features') :
                    /\ features'[i].id = last_earthquake_id'
                    /\ features'[i].dist <= MAX_DISTANCE
          /\ (\E i \in 1..Len(features') : features'[i].dist = MAX_DISTANCE)
             => (strongest' # NoQuake /\ strongest'.dist = MAX_DISTANCE)
          /\ (\A i \in 1..Len(features') : features'[i].dist > MAX_DISTANCE)
             => /\ pc'[Main] = "ce_ret"
                /\ UNCHANGED <<globals, files, sinks>>]_vars

C15_Witness ==
    /\ pc[Main] = "pa_check" /\ strongest.dist = MAX_DISTANCE
    /\ last_earthquake_id = strongest.id /\ last_quake_file = strongest.id
    /\ \E i \in 1..Len(features) :
          features[i].dist > MAX_DISTANCE /\ features[i].mag > strongest.mag

\* C16: once shutdown_requested is set it stays set, and the poll loop
\* eventually exits.
C16_ShutdownLeadsToExit ==
    /\ [][shutdown_requested => shutdown_requested']_vars
    /\ shutdown_requested ~> (pc[Main] = "done")

C16_Witness ==
    /\ pc[Main] = "done" /\ shutdown_requested
    /\ pc[Kbd] = "k_done" /\ is_alarm_active

\* A periodic evaluation is called from the loop (line 371).
StartsPeriodic == pc[Main] = "loop" /\ pc'[Main] = "ce_fetch"

\* C17: one evaluation runs at startup before the loop is entered, and
\* whenever the loop calls an evaluation, at least CHECK_INTERVAL seconds of
\* the clock have passed since the previous evaluation returned, however
\* long that evaluation took.
C17_Claim ==
    /\ [](pc[Main] = "loop" => cycles >= 1)
    /\ [][StartsPeriodic => now - ended >= CHECK_INTERVAL]_vars

\* C17 as the code has it: one evaluation runs at startup before the loop
\* is entered; the first evaluation the loop calls comes at least
\* CHECK_INTERVAL seconds after the startup evaluation returned, and every
\* later one at least CHECK_INTERVAL seconds after the previous evaluation
\* was called (line 372 stores the clock read before the call).
C17_Cadence ==
    /\ [](pc[Main] = "loop" => cycles >= 1)
    /\ [][StartsPeriodic =>
            /\ cycles = 1 => now - ended >= CHECK_INTERVAL
            /\ cycles > 1 => now - began >= CHECK_INTERVAL]_vars

\* The loop has called its second evaluation less than CHECK_INTERVAL
\* seconds after the first one returned, and CHECK_INTERVAL seconds after
\* it was called.
C17_Witness ==
    /\ pc[Main] = "ce_fetch" /\ phase = "periodic"
    /\ cycles = 3
    /\ began = now
    /\ began - ended < CHECK_INTERVAL
    /\ began - last_check = CHECK_INTERVAL

\* The number of the alert that is Active: alerts, sinks and timers are
\* numbered in the order play_alarm starts them (lines 101-136), and line
\* 101 has set the flag of the next alert once main is at line 105.
ActiveAlert == IF pc[Main] = "pa_start" THEN TimersArmed + 1 ELSE TimersArmed

\* The stop_alarm call of timer thread t moves the alert to Idle (line 149).
AutoStops(t) ==
    /\ pc[t] = "sa_clear" /\ pc'[t] # "sa_clear"
    /\ is_alarm_active /\ ~is_alarm_active'

\* C18: the auto-stop timeout moves an Active alert to Idle only when it is
\* the timer armed by the trigger that started that same alert, which fires
\* MAX_ALARM_DURATION after that trigger; after trigger, acknowledge and a
\* second trigger, the second alert is not stopped by the first timer.
\* It is stated for the stop_alarm calls of timer threads that run while no
\* other play_alarm or stop_alarm call is in progress.
C18_AutoStopIsOwnTimer ==
    [][\A t \in Timers :
          (AutoStops(t) /\ ~InPlayAlarm /\ \A u \in Threads \ {t} : ~InStopAlarm(u))
          => ActiveAlert = t[2]]_vars

\* C19: whenever no play_alarm or stop_alarm call is in progress and
\* is_alarm_active is false, alarm_process is None and no sink process that
\* was started is still live, for every interleaving of the poll loop, the
\* keyboard listener, the signal handler and the timer threads.
C19_IdleHasNoLiveSink ==
    (Quiescent /\ ~is_alarm_active) => (alarm_process = None /\ LiveSinks = {})

\* C20: over the poll cycles of one process run, play_alarm is called at
\* most once for the same event identifier, also when another event was the
\* strongest nearby event in a cycle in between.
C20_ForwardedAtMostOnce == \A i \in Ids : forwarded[i] <= 1

=============================================================================
